---- MODULE Spec2Model ----
(***************************************************************************)
(* Property registration chaincode: the user contract and the registrar    *)
(* contract acting on one world state of user and property records.        *)
(* Every transaction function is an operator that, from the committed      *)
(* world state and its arguments, yields the error it throws (if any), the *)
(* getState calls it made and the putState calls it issued; the action of   *)
(* the same name commits the write set when the function returned normally.*)
(***************************************************************************)
EXTENDS Integers, Sequences, FiniteSets, TLC

VARIABLES users,    \* world state under the user namespace: key -> stored JSON object
          props,    \* world state under the property namespace: key -> stored JSON object
          call,     \* the last invocation: function name, caller MSP, arguments
          outcome,  \* what the last invocation did: error thrown, reads, writes
          approvedUsers,  \* history: user keys for which approveNewUserRequest succeeded
          approvedProps,  \* history: property ids for which
                          \* approvePropertyRegistrationRequest succeeded
          versions, \* ledger: [ns, key] -> number of committed writes of the key
          endorsed, \* ledger: transactions simulated and not yet validated
          txSeq     \* ledger: number of transactions simulated so far

vars == <<users, props, call, outcome, approvedUsers, approvedProps,
          versions, endorsed, txSeq>>

----------------------------------------------------------------------------
(* Bounds of the exploration *)

MaxCoins == 1000        \* balances are explored up to this value
MaxDebt == 500          \* and down to minus this value
MaxTx == 4              \* invocations simulated where invocations are concurrent
MaxDigits == 4          \* string balances are explored up to this many digits
MaxLen == 45            \* and up to this many characters

Names == {"a", "b"}
Aadhars == {"1"}
Emails == {"e"}
Phones == {"9"}
Times == {1}                         \* values new Date() may take
PropertyIds == {"p1"}
MSPs == {"usersMSP", "registrarMSP"}
TransactionIDs == {"upg500", "upg1000", "upg0"}
StatusArgs == {"registered", "onSale", "sold"}

----------------------------------------------------------------------------
(* JavaScript values: the upgradCoins field, the price argument and the    *)
(* members of VALID_TRANSACTIONS.  A field that is missing from an object  *)
(* reads as undefined.                                                      *)

Undefined == [t |-> "undefined", n |-> 0]
Null      == [t |-> "null", n |-> 0]
NaN       == [t |-> "NaN", n |-> 0]
Num(n)    == [t |-> "number", n |-> n]

\* a string-valued field that is missing from an object
NoField == "<undefined>"

\* the value of a variable that holds no object (undefined)
UndefinedObj == [undefined |-> TRUE]

\* a string, with its text
String(s) == [t |-> "string", s |-> s]

\* a native function object, with its name
Function(name) == [t |-> "function", s |-> name]

\* the object Object.prototype
Object == [t |-> "object", s |-> "[object Object]"]

Digits == <<"0", "1", "2", "3", "4", "5", "6", "7", "8", "9">>

RECURSIVE NatToString(_)
NatToString(n) ==
    IF n < 10 THEN Digits[n + 1]
    ELSE NatToString(n \div 10) \o Digits[(n % 10) + 1]

\* the decimal text of an integer
NumberToString(n) == IF n < 0 THEN "-" \o NatToString(0 - n) ELSE NatToString(n)

\* ToString of the language
ToStringJS(v) ==
    CASE v.t = "number"    -> NumberToString(v.n)
      [] v.t = "undefined" -> "undefined"
      [] v.t = "null"      -> "null"
      [] v.t = "NaN"       -> "NaN"
      [] v.t = "string"    -> v.s
      [] v.t = "function"  -> "function " \o v.s \o "() { [native code] }"
      [] v.t = "object"    -> v.s

\* ToPrimitive of the language: an object or a function becomes its text
ToPrimitive(v) ==
    IF v.t \in {"function", "object"} THEN String(ToStringJS(v)) ELSE v

IsDigit(c) == \E d \in DOMAIN Digits : Digits[d] = c

DigitValue(c) == (CHOOSE d \in DOMAIN Digits : Digits[d] = c) - 1

RECURSIVE IsDigits(_)
IsDigits(s) == s = "" \/ (IsDigit(Head(s)) /\ IsDigits(Tail(s)))

RECURSIVE DigitsValue(_, _)
DigitsValue(s, acc) ==
    IF s = "" THEN acc ELSE DigitsValue(Tail(s), acc * 10 + DigitValue(Head(s)))

\* s without the spaces at its two ends
RECURSIVE Trim(_)
Trim(s) ==
    IF s = "" THEN s
    ELSE IF Head(s) = " " THEN Trim(Tail(s))
    ELSE IF SubSeq(s, Len(s), Len(s)) = " " THEN Trim(SubSeq(s, 1, Len(s) - 1))
    ELSE s

\* the number a string converts to: spaces at the ends are dropped, the
\* empty string is 0, an optional sign and decimal digits an integer (leading
\* zeros allowed), any other text NaN.  The values of the model are
\* integers: texts of fractions, exponents, hexadecimal numbers and Infinity
\* are not among its strings.
StringToNumber(s) ==
    LET u == Trim(s)
    IN IF u = "" THEN Num(0)
       ELSE LET signed == Head(u) \in {"-", "+"}
                body == IF signed THEN Tail(u) ELSE u
            IN IF body # "" /\ IsDigits(body)
               THEN IF Head(u) = "-" THEN Num(0 - DigitsValue(body, 0))
                                     ELSE Num(DigitsValue(body, 0))
               ELSE NaN

\* ToNumber of the language: undefined -> NaN, null -> +0, a string -> the
\* number it is the text of, an object or a function -> NaN
ToNumber(v) ==
    CASE v.t = "number"    -> v
      [] v.t = "null"      -> Num(0)
      [] v.t = "undefined" -> NaN
      [] v.t = "NaN"       -> NaN
      [] v.t = "string"    -> StringToNumber(v.s)
      [] v.t = "function"  -> NaN
      [] v.t = "object"    -> NaN

\* v += w: the concatenation of the two texts when either operand is a
\* string (or an object or a function), the sum of the numbers otherwise
PlusAssign(v, w) ==
    LET a == ToPrimitive(v)
        b == ToPrimitive(w)
    IN IF a.t = "string" \/ b.t = "string"
       THEN String(ToStringJS(a) \o ToStringJS(b))
       ELSE LET x == ToNumber(a)
                y == ToNumber(b)
            IN IF x.t = "NaN" \/ y.t = "NaN" THEN NaN ELSE Num(x.n + y.n)

\* the truth value of v in a condition
Truthy(v) ==
    CASE v.t = "number"    -> v.n # 0
      [] v.t = "string"    -> v.s # ""
      [] v.t = "function"  -> TRUE
      [] v.t = "object"    -> TRUE
      [] OTHER             -> FALSE

\* v -= w: always the difference of the two numbers
MinusAssign(v, w) ==
    LET x == ToNumber(v)
        y == ToNumber(w)
    IN IF x.t = "NaN" \/ y.t = "NaN" THEN NaN ELSE Num(x.n - y.n)

\* the characters of the texts of the model, in the order of their code
\* units
CodeUnits ==
    " ()+-0123456789ABCDEFGHIJKLMNOPQRSTUVWXYZ[]_abcdefghijklmnopqrstuvwxyz{}"

CodeUnit(c) == CHOOSE i \in 1..Len(CodeUnits) : SubSeq(CodeUnits, i, i) = c

\* s1 < s2 for two strings: the comparison of their code units, a proper
\* prefix being the smaller
RECURSIVE StringLess(_, _)
StringLess(s1, s2) ==
    IF s2 = "" THEN FALSE
    ELSE IF s1 = "" THEN TRUE
    ELSE IF Head(s1) = Head(s2) THEN StringLess(Tail(s1), Tail(s2))
    ELSE CodeUnit(Head(s1)) < CodeUnit(Head(s2))

\* v >= w: the comparison of the texts when both operands are strings, of
\* the numbers otherwise, false when either converts to NaN
GreaterEq(v, w) ==
    LET a == ToPrimitive(v)
        b == ToPrimitive(w)
    IN IF a.t = "string" /\ b.t = "string"
       THEN ~StringLess(a.s, b.s)
       ELSE LET x == ToNumber(a)
                y == ToNumber(b)
            IN x.t = "number" /\ y.t = "number" /\ x.n >= y.n

\* JSON.stringify of the upgradCoins field: NaN is written as null, a number
\* and a string as they are, an undefined field is left out
JSONNumber(v) == IF v.t = "NaN" THEN Null ELSE v

\* price arguments: numbers, and a string as a client passes it
Prices == {Num(-500), Num(500), String("500")}

----------------------------------------------------------------------------
(* Program constants *)

VALID_TRANSACTIONS == [upg100 |-> 100, upg500 |-> 500, upg1000 |-> 1000]

\* members an object literal inherits from Object.prototype
ObjectPrototypeKeys ==
    {"__defineGetter__", "__defineSetter__", "__lookupGetter__", "__lookupSetter__",
     "__proto__", "constructor", "hasOwnProperty", "isPrototypeOf",
     "propertyIsEnumerable", "toLocaleString", "toString", "valueOf"}

\* VALID_TRANSACTIONS[transactionID]: an own key yields its amount, an
\* inherited member its value (the function Object for constructor, the
\* object Object.prototype for __proto__, the method of that name for the
\* others), anything else undefined
Lookup(transactionID) ==
    IF transactionID \in DOMAIN VALID_TRANSACTIONS
    THEN Num(VALID_TRANSACTIONS[transactionID])
    ELSE IF transactionID = "constructor" THEN Function("Object")
    ELSE IF transactionID = "__proto__" THEN Object
    ELSE IF transactionID \in ObjectPrototypeKeys THEN Function(transactionID)
    ELSE Undefined

REGISTERED == "registered"
ON_SALE == "onSale"

USER_NS == "org.property-registration-network.regnet.user."
PROPERTY_NS == "org.property-registration-network.regnet.property."

NoError == "ok"
ErrRequestUserAuth == "Only users should be allowed to raise a new user request"
ErrUserExists == "User already exists"
ErrUserRequestExists == "User Registration Request is already exists"
ErrRechargeAuth == "Only users should be allowed to recharge accounts"
ErrInvalidTransaction == "Invalid Bank Transaction ID"
ErrNoUser == "There is no user"
ErrPropertyRequestAuth == "Only users should be used to raise property registration request"
ErrPropertyExists == "Property is already exists"
ErrPropertyRequestExists == "Property Registration request is already exists"
ErrNoApprovedUser == "There is no approved user"
ErrNoProperty == "Property does not exists"
ErrBadStatus == "The input value of the status should be either registered or onSale"
ErrNotOwner == "Only authorized users can update the value of this property"
ErrNoUserOrProperty == "There is no user OR There is no registered property"
ErrNoFunds == "There are no sufficient funds"
ErrNotOnSale == "The property is not onSale"
ErrApproveUserAuth == "Registrar's can only approve new user request"
ErrNoUserRequest == "The new user request does not exists"
ErrApprovePropertyAuth == "Registrar's can only approve property registration request"
ErrTypeError == "TypeError"
ErrNoRegisteredProperty == "There is no registered property"

AuthErrors == {ErrRequestUserAuth, ErrRechargeAuth, ErrPropertyRequestAuth,
               ErrApproveUserAuth, ErrApprovePropertyAuth}

----------------------------------------------------------------------------
(* The role checks: ctx.clientIdentity.getMSPID() != "usersMSP" and        *)
(* ctx.clientIdentity.getMSPID() != "registrarMSP"                          *)

\* a slip: the user-role check never rejects
notUsersMSPIgnored(msp) == FALSE

notUsersMSP(msp) == msp # "usersMSP"

notRegistrarMSP(msp) == msp # "registrarMSP"

----------------------------------------------------------------------------
(* Keys and model classes *)

RECURSIVE makeKey(_)
\* keyParts.join(":")
makeKey(keyParts) ==
    IF Len(keyParts) = 0 THEN ""
    ELSE IF Len(keyParts) = 1 THEN keyParts[1]
    ELSE keyParts[1] \o ":" \o makeKey(Tail(keyParts))

\* a slip: the key of a User is derived from the name alone
UserInstanceNameKey(json) ==
    [json EXCEPT !.key = IF @ # NoField THEN @ ELSE makeKey(<<json.name>>)]

\* new User(json): key is derived from name and aadhar, then every field of
\* json (a stored key included) is assigned over it
UserInstance(json) ==
    [json EXCEPT !.key = IF @ # NoField THEN @ ELSE makeKey(<<json.name, json.aadhar>>)]

\* new Property(json)
PropertyInstance(json) ==
    [json EXCEPT !.key = IF @ # NoField THEN @ ELSE makeKey(<<json.propertyId>>)]

\* user.toBuffer(): JSON.stringify(this)
UserToBuffer(u) == [u EXCEPT !.upgradCoins = JSONNumber(@)]

\* property.toBuffer(): JSON.stringify(this)
PropertyToBuffer(p) == p

----------------------------------------------------------------------------
(* World state access.  A key that was never written yields an empty       *)
(* buffer, which JSON.parse rejects.                                        *)

Read(ns, key) == [ns |-> ns, key |-> key]
Put(ns, key, value) == [ns |-> ns, key |-> key, value |-> value]

\* JSON.parse(buffer.toString()) inside try/catch: undefined when it throws
ParseState(W, key) == IF key \in DOMAIN W THEN W[key] ELSE UndefinedObj

\* PropertyList.getProperty followed by the caller's .catch(): the Property
\* stored at the key, undefined when fromBuffer throws
getProperty(P, propertyKey) ==
    IF propertyKey \in DOMAIN P THEN PropertyInstance(P[propertyKey]) ELSE UndefinedObj

\* UserList.getUser followed by the caller's .catch()
getUser(U, userKey) ==
    IF userKey \in DOMAIN U THEN UserInstance(U[userKey]) ELSE UndefinedObj

\* PropertyList.addProperty / updateProperty: one putState under the object's key
putProperty(property) == Put(PROPERTY_NS, property.key, PropertyToBuffer(property))

\* UserList.addUser / updateUser: one putState under the object's key
putUser(user) == Put(USER_NS, user.key, UserToBuffer(user))

\* the result of a transaction function: the error thrown (with the getState
\* and putState calls made before the throw), or a normal return
Throw(err, reads, puts) == [err |-> err, reads |-> reads, puts |-> puts]
Return(reads, puts) == [err |-> NoError, reads |-> reads, puts |-> puts]

\* a normal return of a read-only function, with the value returned
ReturnValue(reads, ret) == [err |-> NoError, reads |-> reads, puts |-> <<>>, ret |-> ret]

----------------------------------------------------------------------------
(* UserContract *)

requestNewUser(U, P, msp, name, email, phone, aadhar, now) ==
    IF notUsersMSP(msp) THEN Throw(ErrRequestUserAuth, <<>>, <<>>)
    ELSE
      LET userKey == makeKey(<<name, aadhar>>)
          existingUser == ParseState(U, userKey)
          reads == <<Read(USER_NS, userKey)>>
      IN IF existingUser # UndefinedObj
         THEN IF GreaterEq(existingUser.upgradCoins, Num(0))
              THEN Throw(ErrUserExists, reads, <<>>)
              ELSE Throw(ErrUserRequestExists, reads, <<>>)
         ELSE LET userObj == [name |-> name, email |-> email, phone |-> phone,
                              aadhar |-> aadhar, createdAt |-> now,
                              upgradCoins |-> Undefined, key |-> NoField]
              IN Return(reads, <<Put(USER_NS, userKey, userObj)>>)

rechargeAccount(U, P, msp, name, aadhar, transactionID) ==
    IF notUsersMSP(msp) THEN Throw(ErrRechargeAuth, <<>>, <<>>)
    ELSE IF ~Truthy(Lookup(transactionID))
    THEN Throw(ErrInvalidTransaction, <<>>, <<>>)
    ELSE
      LET upgradCoins == Lookup(transactionID)
          userKey == makeKey(<<name, aadhar>>)
          user == getUser(U, userKey)
          reads == <<Read(USER_NS, userKey)>>
      IN IF user = UndefinedObj
         THEN Throw(ErrNoUser, reads, <<>>)
         ELSE Return(reads,
                <<putUser([user EXCEPT
                             !.upgradCoins = PlusAssign(@, upgradCoins)])>>)

\* a slip: the registered test of propertyRegistrationRequest never holds
isRegisteredNever(property) == FALSE

\* property.status == PROPERTY_STATUS.REGISTERED
isRegistered(property) == property.status = REGISTERED

propertyRegistrationRequest(U, P, msp, name, aadhar, propertyId, price) ==
    IF notUsersMSP(msp) THEN Throw(ErrPropertyRequestAuth, <<>>, <<>>)
    ELSE
      LET userKey == makeKey(<<name, aadhar>>)
          propertyKey == makeKey(<<propertyId>>)
          property == ParseState(P, propertyKey)
          readProperty == <<Read(PROPERTY_NS, propertyKey)>>
      IN IF property # UndefinedObj
         THEN IF isRegistered(property)
              THEN Throw(ErrPropertyExists, readProperty, <<>>)
              ELSE Throw(ErrPropertyRequestExists, readProperty, <<>>)
         ELSE
           LET user == getUser(U, userKey)
               reads == Append(readProperty, Read(USER_NS, userKey))
           IN IF user = UndefinedObj
              THEN Throw(ErrNoApprovedUser, reads, <<>>)
              ELSE LET propertyObj == [propertyId |-> propertyId, owner |-> userKey,
                                       price |-> price, status |-> NoField,
                                       key |-> NoField]
                   IN Return(reads, <<Put(PROPERTY_NS, propertyKey, propertyObj)>>)

\* a slip: the owner test of updateProperty accepts every caller
isOwnerAnyone(propertyObj, userKey) == TRUE

\* propertyObj.owner === userKey
isOwner(propertyObj, userKey) == propertyObj.owner = userKey

\* a slip: updateProperty stores the new status before it validates it
updatePropertyWriteFirst(U, P, msp, name, aadhar, propertyId, status) ==
    LET userKey == makeKey(<<name, aadhar>>)
        propertyKey == makeKey(<<propertyId>>)
        propertyObj == getProperty(P, propertyKey)
        reads == <<Read(PROPERTY_NS, propertyKey)>>
        written == <<putProperty([propertyObj EXCEPT !.status = status])>>
    IN IF propertyObj = UndefinedObj
       THEN Throw(ErrNoProperty, reads, <<>>)
       ELSE IF isOwner(propertyObj, userKey)
            THEN IF status = REGISTERED \/ status = ON_SALE
                 THEN Return(reads, written)
                 ELSE Throw(ErrBadStatus, reads, written)
            ELSE Throw(ErrNotOwner, reads, <<>>)

updateProperty(U, P, msp, name, aadhar, propertyId, status) ==
    LET userKey == makeKey(<<name, aadhar>>)
        propertyKey == makeKey(<<propertyId>>)
        propertyObj == getProperty(P, propertyKey)
        reads == <<Read(PROPERTY_NS, propertyKey)>>
    IN IF propertyObj = UndefinedObj
       THEN Throw(ErrNoProperty, reads, <<>>)
       ELSE IF isOwner(propertyObj, userKey)
            THEN IF status = REGISTERED \/ status = ON_SALE
                 THEN Return(reads, <<putProperty([propertyObj EXCEPT !.status = status])>>)
                 ELSE Throw(ErrBadStatus, reads, <<>>)
            ELSE Throw(ErrNotOwner, reads, <<>>)

\* UserContract.viewUser
viewUser(U, P, msp, name, aadhar) ==
    LET userKey == makeKey(<<name, aadhar>>)
        userObj == ParseState(U, userKey)
        reads == <<Read(USER_NS, userKey)>>
    IN IF userObj = UndefinedObj
       THEN Throw(ErrNoUser, reads, <<>>)
       ELSE ReturnValue(reads, userObj)

\* UserContract.viewProperty
viewProperty(U, P, msp, propertyId) ==
    LET propertyKey == makeKey(<<propertyId>>)
        propertyObj == getProperty(P, propertyKey)
        reads == <<Read(PROPERTY_NS, propertyKey)>>
    IN IF propertyObj = UndefinedObj
       THEN Throw(ErrNoRegisteredProperty, reads, <<>>)
       ELSE ReturnValue(reads, propertyObj)

\* the in-memory updates of a purchase: the property goes to the buyer and
\* back to registered, the price moves from the buyer to the old owner
\* a slip: the purchase forgets to take the property off sale
transferPropertyStillOnSale(property, userKey) ==
    [property EXCEPT !.owner = userKey]

transferProperty(property, userKey) ==
    [property EXCEPT !.status = REGISTERED, !.owner = userKey]

debit(user, price) == [user EXCEPT !.upgradCoins = MinusAssign(@, price)]

credit(oldOwner, price) == [oldOwner EXCEPT !.upgradCoins = PlusAssign(@, price)]

purchaseProperty(U, P, msp, name, aadhar, propertyId) ==
    LET userKey == makeKey(<<name, aadhar>>)
        user == getUser(U, userKey)
        propertyKey == makeKey(<<propertyId>>)
        property == getProperty(P, propertyKey)
        reads == <<Read(USER_NS, userKey), Read(PROPERTY_NS, propertyKey)>>
    IN IF user = UndefinedObj \/ property = UndefinedObj
       THEN Throw(ErrNoUserOrProperty, reads, <<>>)
       ELSE IF property.status = ON_SALE
            THEN IF GreaterEq(user.upgradCoins, property.price)
                 THEN
                   LET oldOwnerKey == property.owner
                       oldOwner == getUser(U, oldOwnerKey)
                       reads3 == Append(reads, Read(USER_NS, oldOwnerKey))
                   IN IF oldOwner = UndefinedObj
                      THEN Throw(ErrTypeError, reads3, <<>>)
                      ELSE
                        LET property2 == transferProperty(property, userKey)
                            user2 == debit(user, property.price)
                            oldOwner2 == credit(oldOwner, property.price)
                        IN Return(reads3, <<putProperty(property2), putUser(user2),
                                            putUser(oldOwner2)>>)
                 ELSE Throw(ErrNoFunds, reads, <<>>)
            ELSE Throw(ErrNotOnSale, reads, <<>>)

----------------------------------------------------------------------------
(* RegistrarContract *)

approveNewUserRequest(U, P, msp, name, aadhar) ==
    IF notRegistrarMSP(msp) THEN Throw(ErrApproveUserAuth, <<>>, <<>>)
    ELSE
      LET userKey == makeKey(<<name, aadhar>>)
          userRequestObj == ParseState(U, userKey)
          reads == <<Read(USER_NS, userKey)>>
      IN IF userRequestObj = UndefinedObj
         THEN Throw(ErrNoUserRequest, reads, <<>>)
         ELSE LET userObj == UserInstance([userRequestObj EXCEPT !.upgradCoins = Num(0)])
              IN Return(reads, <<putUser(userObj)>>)

approvePropertyRegistrationRequest(U, P, msp, propertyId) ==
    IF notRegistrarMSP(msp) THEN Throw(ErrApprovePropertyAuth, <<>>, <<>>)
    ELSE
      LET propertyKey == makeKey(<<propertyId>>)
          propertyRequestObj == ParseState(P, propertyKey)
          reads == <<Read(PROPERTY_NS, propertyKey)>>
      IN IF propertyRequestObj = UndefinedObj
         THEN Throw(ErrNoProperty, reads, <<>>)
         ELSE LET property == PropertyInstance(
                                [propertyRequestObj EXCEPT !.status = "registered"])
              IN Return(reads, <<putProperty(property)>>)

\* RegistrarContract.viewUser
registrarViewUser(U, P, msp, name, aadhar) ==
    LET userKey == makeKey(<<name, aadhar>>)
        userObj == ParseState(U, userKey)
        reads == <<Read(USER_NS, userKey)>>
    IN IF userObj = UndefinedObj
       THEN Throw(ErrNoUser, reads, <<>>)
       ELSE ReturnValue(reads, userObj)

\* RegistrarContract.viewProperty: getProperty(...).catch(...) is not awaited,
\* so propertyObj is a promise, which is never === undefined; the function
\* returns it, and the invocation completes with the value the promise
\* settles to: the Property, or undefined when the catch handler ran
registrarViewProperty(U, P, msp, propertyId) ==
    LET propertyKey == makeKey(<<propertyId>>)
        settled == getProperty(P, propertyKey)
        reads == <<Read(PROPERTY_NS, propertyKey)>>
    IN ReturnValue(reads, settled)

----------------------------------------------------------------------------
(* Committing an invocation.  The puts of an invocation that returned      *)
(* normally are applied in the order they were issued (a later put to the   *)
(* same key replaces an earlier one); an invocation that threw commits      *)
(* nothing.                                                                 *)

RECURSIVE ApplyPuts(_, _, _)
ApplyPuts(W, ns, puts) ==
    IF puts = <<>> THEN W
    ELSE LET p == Head(puts)
             W1 == IF p.ns = ns
                   THEN [k \in DOMAIN W \cup {p.key} |->
                            IF k = p.key THEN p.value ELSE W[k]]
                   ELSE W
         IN ApplyPuts(W1, ns, Tail(puts))

RECURSIVE DigitCount(_)
DigitCount(s) ==
    IF s = "" THEN 0
    ELSE (IF IsDigit(Head(s)) THEN 1 ELSE 0) + DigitCount(Tail(s))

\* every balance stays within the explored range
WithinBounds(U) ==
    \A k \in DOMAIN U :
        /\ U[k].upgradCoins.t = "number" =>
              /\ U[k].upgradCoins.n <= MaxCoins
              /\ U[k].upgradCoins.n >= 0 - MaxDebt
        /\ U[k].upgradCoins.t = "string" =>
              /\ Len(U[k].upgradCoins.s) <= MaxLen
              /\ DigitCount(U[k].upgradCoins.s) <= MaxDigits

\* the invocation c with outcome r is committed: its writes when it returned
\* normally, nothing when it threw
Effect(c, r) ==
    /\ outcome' = r
    /\ users' = IF r.err = NoError THEN ApplyPuts(users, USER_NS, r.puts) ELSE users
    /\ props' = IF r.err = NoError THEN ApplyPuts(props, PROPERTY_NS, r.puts) ELSE props
    /\ approvedUsers' =
          IF c.op = "approveNewUserRequest" /\ r.err = NoError
          THEN approvedUsers \cup {makeKey(<<c.name, c.aadhar>>)} ELSE approvedUsers
    /\ approvedProps' =
          IF c.op = "approvePropertyRegistrationRequest" /\ r.err = NoError
          THEN approvedProps \cup {makeKey(<<c.propertyId>>)} ELSE approvedProps

\* the same, within the explored range of balances
Apply(c, r) ==
    /\ Effect(c, r)
    /\ WithinBounds(users')

Invoke(c, r) ==
    /\ Apply(c, r)
    /\ UNCHANGED <<versions, endorsed, txSeq>>

\* arg is the status argument of updateProperty and the transactionID of
\* rechargeAccount
CallWith(op, msp, name, aadhar, propertyId, arg) ==
    [op |-> op, msp |-> msp, name |-> name, aadhar |-> aadhar,
     propertyId |-> propertyId, arg |-> arg]

Call(op, msp, name, aadhar, propertyId) ==
    CallWith(op, msp, name, aadhar, propertyId, "-")

RequestNewUser ==
    \E msp \in MSPs, name \in Names, aadhar \in Aadhars, email \in Emails,
       phone \in Phones, now \in Times :
        /\ call' = Call("requestNewUser", msp, name, aadhar, "-")
        /\ Invoke(call',
               requestNewUser(users, props, msp, name, email, phone, aadhar, now))

ApproveNewUserRequest ==
    \E msp \in MSPs, name \in Names, aadhar \in Aadhars :
        /\ call' = Call("approveNewUserRequest", msp, name, aadhar, "-")
        /\ Invoke(call',
               approveNewUserRequest(users, props, msp, name, aadhar))

RechargeAccountWith(transactionIDs) ==
    \E msp \in MSPs, name \in Names, aadhar \in Aadhars, tx \in transactionIDs :
        /\ call' = CallWith("rechargeAccount", msp, name, aadhar, "-", tx)
        /\ Invoke(call',
               rechargeAccount(users, props, msp, name, aadhar, tx))

RechargeAccount == RechargeAccountWith(TransactionIDs)

PropertyRegistrationRequest ==
    \E msp \in MSPs, name \in Names, aadhar \in Aadhars, propertyId \in PropertyIds,
       price \in Prices :
        /\ call' = Call("propertyRegistrationRequest", msp, name, aadhar, propertyId)
        /\ Invoke(call',
               propertyRegistrationRequest(users, props, msp, name, aadhar,
                                           propertyId, price))

ApprovePropertyRegistrationRequest ==
    \E msp \in MSPs, propertyId \in PropertyIds :
        /\ call' = Call("approvePropertyRegistrationRequest", msp, "-", "-", propertyId)
        /\ Invoke(call',
               approvePropertyRegistrationRequest(users, props, msp, propertyId))

UpdateProperty ==
    \E msp \in MSPs, name \in Names, aadhar \in Aadhars, propertyId \in PropertyIds,
       status \in StatusArgs :
        /\ call' = CallWith("updateProperty", msp, name, aadhar, propertyId, status)
        /\ Invoke(call',
               updateProperty(users, props, msp, name, aadhar, propertyId, status))

PurchaseProperty ==
    \E msp \in MSPs, name \in Names, aadhar \in Aadhars, propertyId \in PropertyIds :
        /\ call' = Call("purchaseProperty", msp, name, aadhar, propertyId)
        /\ Invoke(call',
               purchaseProperty(users, props, msp, name, aadhar, propertyId))

ViewUser ==
    \E msp \in MSPs, name \in Names, aadhar \in Aadhars :
        /\ call' = Call("viewUser", msp, name, aadhar, "-")
        /\ Invoke(call', viewUser(users, props, msp, name, aadhar))

ViewProperty ==
    \E msp \in MSPs, propertyId \in PropertyIds :
        /\ call' = Call("viewProperty", msp, "-", "-", propertyId)
        /\ Invoke(call', viewProperty(users, props, msp, propertyId))

RegistrarViewUser ==
    \E msp \in MSPs, name \in Names, aadhar \in Aadhars :
        /\ call' = Call("registrar:viewUser", msp, name, aadhar, "-")
        /\ Invoke(call', registrarViewUser(users, props, msp, name, aadhar))

RegistrarViewProperty ==
    \E msp \in MSPs, propertyId \in PropertyIds :
        /\ call' = Call("registrar:viewProperty", msp, "-", "-", propertyId)
        /\ Invoke(call', registrarViewProperty(users, props, msp, propertyId))

Init ==
    /\ users = <<>>
    /\ props = <<>>
    /\ call = Call("instantiate", "registrarMSP", "-", "-", "-")
    /\ outcome = Return(<<>>, <<>>)
    /\ approvedUsers = {}
    /\ approvedProps = {}
    /\ versions = <<>>
    /\ endorsed = {}
    /\ txSeq = 0

Next ==
    \/ RequestNewUser
    \/ ApproveNewUserRequest
    \/ RechargeAccount
    \/ PropertyRegistrationRequest
    \/ ApprovePropertyRegistrationRequest
    \/ UpdateProperty
    \/ PurchaseProperty
    \/ ViewUser
    \/ ViewProperty
    \/ RegistrarViewUser
    \/ RegistrarViewProperty

Spec == Init /\ [][Next]_vars

----------------------------------------------------------------------------
(* The user accounts alone, recharged with every code of the table and     *)
(* with codes that are not in it.                                           *)

\* what a transaction function sees of a namespace when its getState of key
\* rejects: .catch(err => console.log(err)) yields undefined, toString() of
\* it throws inside the try, and the record reads as undefined
FailedRead(W, key) == [k \in DOMAIN W \ {key} |-> W[k]]

\* requestNewUser while the getState of the user key fails
RequestNewUserReadFails ==
    \E msp \in MSPs, name \in Names, aadhar \in Aadhars, email \in Emails,
       phone \in Phones, now \in Times :
        /\ call' = CallWith("requestNewUser", msp, name, aadhar, "-", "getStateFails")
        /\ Invoke(call',
               requestNewUser(FailedRead(users, makeKey(<<name, aadhar>>)), props,
                              msp, name, email, phone, aadhar, now))

\* propertyRegistrationRequest while the getState of the property key fails
PropertyRegistrationRequestReadFails ==
    \E msp \in MSPs, name \in Names, aadhar \in Aadhars,
       propertyId \in PropertyIds, price \in Prices :
        /\ call' = CallWith("propertyRegistrationRequest", msp, name, aadhar,
                            propertyId, "getStateFails")
        /\ Invoke(call',
               propertyRegistrationRequest(users,
                   FailedRead(props, makeKey(<<propertyId>>)),
                   msp, name, aadhar, propertyId, price))

NextFaults ==
    \/ RequestNewUser
    \/ ApproveNewUserRequest
    \/ RechargeAccount
    \/ PropertyRegistrationRequest
    \/ ApprovePropertyRegistrationRequest
    \/ RequestNewUserReadFails
    \/ PropertyRegistrationRequestReadFails

SpecFaults == Init /\ [][NextFaults]_vars

----------------------------------------------------------------------------
(* Concurrent invocations.  An invocation is simulated against the         *)
(* committed world state, which records the version of every key it reads  *)
(* and the writes it issues; the ledger later validates it: it commits,    *)
(* all writes at once, when every key read still has the version read, and *)
(* is rejected whole otherwise.                                            *)

MVCCNames == {"a", "b", "c"}
MVCCRecharges == {"upg500", "upg1000"}

ErrMVCCReadConflict == "MVCC_READ_CONFLICT"

Version(V, k) == IF k \in DOMAIN V THEN V[k] ELSE 0

ReadVersions(V, reads) == [i \in DOMAIN reads |-> Version(V, reads[i])]

Written(puts) == {Read(puts[i].ns, puts[i].key) : i \in DOMAIN puts}

BumpVersions(V, puts) ==
    [k \in DOMAIN V \cup Written(puts) |->
        IF k \in Written(puts) THEN Version(V, k) + 1 ELSE V[k]]

\* every key the transaction read still has the version it read
Valid(V, t) ==
    \A i \in DOMAIN t.r.reads : Version(V, t.r.reads[i]) = t.readVersions[i]

\* the ledger after an invocation with outcome r ran alone and committed
Committed(W, r) ==
    IF r.err = NoError
    THEN [users |-> ApplyPuts(W.users, USER_NS, r.puts),
          props |-> ApplyPuts(W.props, PROPERTY_NS, r.puts),
          versions |-> BumpVersions(W.versions, r.puts)]
    ELSE W

\* requestNewUser, approveNewUserRequest and rechargeAccount for one user
Enrolled(W, name, aadhar, transactionID) ==
    LET W1 == Committed(W, requestNewUser(W.users, W.props, "usersMSP", name,
                                          "e", "9", aadhar, 1))
        W2 == Committed(W1, approveNewUserRequest(W1.users, W1.props,
                                                  "registrarMSP", name, aadhar))
    IN Committed(W2, rechargeAccount(W2.users, W2.props, "usersMSP", name,
                                     aadhar, transactionID))

\* propertyRegistrationRequest, approvePropertyRegistrationRequest and
\* updateProperty to onSale for one property
Listed(W, name, aadhar, propertyId, price) ==
    LET W1 == Committed(W, propertyRegistrationRequest(W.users, W.props,
                               "usersMSP", name, aadhar, propertyId, price))
        W2 == Committed(W1, approvePropertyRegistrationRequest(W1.users, W1.props,
                               "registrarMSP", propertyId))
    IN Committed(W2, updateProperty(W2.users, W2.props, "usersMSP", name, aadhar,
                                    propertyId, ON_SALE))

\* three approved users with coins, and property p1 of user a on sale
InitMVCC ==
    \E txb \in MVCCRecharges, txc \in MVCCRecharges :
        LET W0 == [users |-> <<>>, props |-> <<>>, versions |-> <<>>]
            W1 == Enrolled(W0, "a", "1", "upg500")
            W2 == Enrolled(W1, "b", "1", txb)
            W3 == Enrolled(W2, "c", "1", txc)
            W4 == Listed(W3, "a", "1", "p1", Num(500))
        IN /\ users = W4.users
           /\ props = W4.props
           /\ versions = W4.versions
           /\ endorsed = {}
           /\ txSeq = 0
           /\ call = Call("instantiate", "registrarMSP", "-", "-", "-")
           /\ outcome = Return(<<>>, <<>>)
           /\ approvedUsers = DOMAIN W4.users
           /\ approvedProps = DOMAIN W4.props

\* the simulation of invocation c with outcome r: nothing is committed; a
\* simulation that throws is not submitted
Endorse(c, r) ==
    /\ txSeq < MaxTx
    /\ outcome' = r
    /\ txSeq' = txSeq + 1
    /\ endorsed' =
          IF r.err = NoError
          THEN endorsed \cup {[id |-> txSeq', c |-> c, r |-> r,
                               readVersions |-> ReadVersions(versions, r.reads)]}
          ELSE endorsed
    /\ UNCHANGED <<users, props, versions, approvedUsers, approvedProps>>

EndorsePurchaseProperty ==
    \E name \in MVCCNames, aadhar \in Aadhars, propertyId \in PropertyIds :
        /\ call' = CallWith("purchaseProperty", "usersMSP", name, aadhar,
                            propertyId, "endorse")
        /\ Endorse(call', purchaseProperty(users, props, "usersMSP", name, aadhar,
                                           propertyId))

\* updateProperty to onSale, which puts a purchased property on sale again
EndorseUpdateProperty ==
    \E name \in MVCCNames, aadhar \in Aadhars, propertyId \in PropertyIds :
        /\ call' = CallWith("updateProperty", "usersMSP", name, aadhar,
                            propertyId, "endorse")
        /\ Endorse(call', updateProperty(users, props, "usersMSP", name, aadhar,
                                         propertyId, ON_SALE))

\* the validation of one simulated transaction, in any order
CommitTx ==
    \E t \in endorsed :
        /\ call' = [t.c EXCEPT !.arg = "commit"]
        /\ endorsed' = endorsed \ {t}
        /\ IF Valid(versions, t)
           THEN /\ outcome' = t.r
                /\ users' = ApplyPuts(users, USER_NS, t.r.puts)
                /\ props' = ApplyPuts(props, PROPERTY_NS, t.r.puts)
                /\ versions' = BumpVersions(versions, t.r.puts)
           ELSE /\ outcome' = Throw(ErrMVCCReadConflict, t.r.reads, <<>>)
                /\ UNCHANGED <<users, props, versions>>
        /\ UNCHANGED <<txSeq, approvedUsers, approvedProps>>

NextMVCC ==
    \/ EndorsePurchaseProperty
    \/ EndorseUpdateProperty
    \/ CommitTx

SpecMVCC == InitMVCC /\ [][NextMVCC]_vars

----------------------------------------------------------------------------
(* Two executions of one invocation, as on two endorsing peers: the same   *)
(* function, arguments, caller and world state, each peer with the value   *)
(* its own clock gives new Date().  The two outcomes are kept in endorsed; *)
(* the outcome of the first peer is the one committed.                     *)

PeerTimes == {1, 2}                  \* values new Date() may take on a peer

OnPeers(c, r1, r2) ==
    /\ Apply(c, r1)
    /\ endorsed' = {[id |-> 1, c |-> c, r |-> r1,
                     readVersions |-> ReadVersions(versions, r1.reads)],
                    [id |-> 2, c |-> c, r |-> r2,
                     readVersions |-> ReadVersions(versions, r2.reads)]}
    /\ UNCHANGED <<versions, txSeq>>

RequestNewUserOnPeers ==
    \E msp \in MSPs, name \in Names, aadhar \in Aadhars, email \in Emails,
       phone \in Phones, now1 \in PeerTimes, now2 \in PeerTimes :
        /\ call' = CallWith("requestNewUser", msp, name, aadhar, "-", "peers")
        /\ OnPeers(call',
               requestNewUser(users, props, msp, name, email, phone, aadhar, now1),
               requestNewUser(users, props, msp, name, email, phone, aadhar, now2))

ApproveNewUserRequestOnPeers ==
    \E msp \in MSPs, name \in Names, aadhar \in Aadhars :
        /\ call' = CallWith("approveNewUserRequest", msp, name, aadhar, "-", "peers")
        /\ OnPeers(call',
               approveNewUserRequest(users, props, msp, name, aadhar),
               approveNewUserRequest(users, props, msp, name, aadhar))

PropertyRegistrationRequestOnPeers ==
    \E msp \in MSPs, name \in Names, aadhar \in Aadhars,
       propertyId \in PropertyIds, price \in Prices :
        /\ call' = CallWith("propertyRegistrationRequest", msp, name, aadhar,
                            propertyId, "peers")
        /\ OnPeers(call',
               propertyRegistrationRequest(users, props, msp, name, aadhar,
                                           propertyId, price),
               propertyRegistrationRequest(users, props, msp, name, aadhar,
                                           propertyId, price))

NextPeers ==
    \/ RequestNewUserOnPeers
    \/ ApproveNewUserRequestOnPeers
    \/ PropertyRegistrationRequestOnPeers

SpecPeers == Init /\ [][NextPeers]_vars

----------------------------------------------------------------------------
(* Prices passed as strings, as a client passes every argument.  Two users *)
(* with 500 coins each, property p1 of user a on sale at "6" and property  *)
(* p2 of user b on sale at "50000"; at most MaxTx invocations follow, one  *)
(* after the other, with no bound on the balances.                         *)

TextPriceIds == {"p1", "p2"}

InitTextPrices ==
    LET W0 == [users |-> <<>>, props |-> <<>>, versions |-> <<>>]
        W1 == Enrolled(W0, "a", "1", "upg500")
        W2 == Enrolled(W1, "b", "1", "upg500")
        W3 == Listed(W2, "a", "1", "p1", String("6"))
        W4 == Listed(W3, "b", "1", "p2", String("50000"))
    IN /\ users = W4.users
       /\ props = W4.props
       /\ versions = <<>>
       /\ endorsed = {}
       /\ txSeq = 0
       /\ call = Call("instantiate", "registrarMSP", "-", "-", "-")
       /\ outcome = Return(<<>>, <<>>)
       /\ approvedUsers = DOMAIN W4.users
       /\ approvedProps = DOMAIN W4.props

InvokeCounted(c, r) ==
    /\ txSeq < MaxTx
    /\ txSeq' = txSeq + 1
    /\ Effect(c, r)
    /\ UNCHANGED <<versions, endorsed>>

PurchasePropertyCounted ==
    \E msp \in MSPs, name \in Names, aadhar \in Aadhars,
       propertyId \in TextPriceIds :
        /\ call' = Call("purchaseProperty", msp, name, aadhar, propertyId)
        /\ InvokeCounted(call',
               purchaseProperty(users, props, msp, name, aadhar, propertyId))

UpdatePropertyCounted ==
    \E msp \in MSPs, name \in Names, aadhar \in Aadhars,
       propertyId \in TextPriceIds, status \in StatusArgs :
        /\ call' = CallWith("updateProperty", msp, name, aadhar, propertyId, status)
        /\ InvokeCounted(call',
               updateProperty(users, props, msp, name, aadhar, propertyId, status))

NextTextPrices ==
    \/ PurchasePropertyCounted
    \/ UpdatePropertyCounted

SpecTextPrices == InitTextPrices /\ [][NextTextPrices]_vars

RechargeIDs == {"upg500", "upg0", "isPrototypeOf", "__proto__"}

RechargeAccountAnyCode == RechargeAccountWith(RechargeIDs)

NextRecharge ==
    \/ RequestNewUser
    \/ ApproveNewUserRequest
    \/ RechargeAccountAnyCode

SpecRecharge == Init /\ [][NextRecharge]_vars

----------------------------------------------------------------------------
(* Vocabulary of the properties *)

\* the key of the user named by the last invocation / by the invocation
\* this step makes
callerKey == makeKey(<<call.name, call.aadhar>>)

\* x.upgradCoins is present in the stored object
HasBalance(u) == u.upgradCoins # Undefined

\* the stored balance as a number of coins (0 when there is none)
Coins(u) == IF u.upgradCoins.t = "number" THEN u.upgradCoins.n ELSE 0

RECURSIVE SumCoins(_, _)
SumCoins(U, keys) ==
    IF keys = {} THEN 0
    ELSE LET k == CHOOSE x \in keys : TRUE
         IN Coins(U[k]) + SumCoins(U, keys \ {k})

\* the sum of the stored balances of all users
TotalCoins(U) == SumCoins(U, DOMAIN U)

LedgerUnchanged == users' = users /\ props' = props

\* this step is a purchaseProperty invocation that returned normally
PurchaseSucceeds == call'.op = "purchaseProperty" /\ outcome'.err = NoError

----------------------------------------------------------------------------
(* C1: a successful purchaseProperty conserves the total coin supply: the  *)
(* sum of the stored balances of all users after the purchase equals the   *)
(* sum before it.                                                           *)
C1_PurchaseConservesCoins ==
    [][PurchaseSucceeds => TotalCoins(users') = TotalCoins(users)]_vars

(* C2: purchaseProperty on an onSale property by a buyer whose balance is  *)
(* lower than the price (both taken as the numbers they are or are the     *)
(* text of) fails with the insufficient-funds error and changes no user    *)
(* record and no property record.                                           *)
C2_BuyerShort ==
    LET buyer == makeKey(<<call'.name, call'.aadhar>>)
        pid == makeKey(<<call'.propertyId>>)
    IN /\ call'.op = "purchaseProperty"
       /\ pid \in DOMAIN props /\ props[pid].status = ON_SALE
       /\ buyer \in DOMAIN users
       /\ ToNumber(users[buyer].upgradCoins).t = "number"
       /\ ToNumber(props[pid].price).t = "number"
       /\ ToNumber(users[buyer].upgradCoins).n < ToNumber(props[pid].price).n

C2_InsufficientFundsNoMutation ==
    [][C2_BuyerShort =>
          /\ outcome'.err = ErrNoFunds
          /\ outcome'.puts = <<>>
          /\ LedgerUnchanged]_vars

(* C3 as stated: after a successful purchaseProperty the stored property   *)
(* has the buyer's key as owner and status registered, and a purchase of   *)
(* the same property made right after it fails with the "not onSale"       *)
(* error.                                                                   *)
C3_SecondPurchaseNotOnSale ==
    [][/\ PurchaseSucceeds =>
            LET pid == makeKey(<<call'.propertyId>>)
            IN /\ props'[pid].owner = makeKey(<<call'.name, call'.aadhar>>)
               /\ props'[pid].status = REGISTERED
       /\ (/\ call.op = "purchaseProperty" /\ outcome.err = NoError
           /\ call'.op = "purchaseProperty" /\ call'.propertyId = call.propertyId)
            => outcome'.err = ErrNotOnSale]_vars

(* C3 amended: after a successful purchaseProperty the stored property has *)
(* the buyer's key as owner and status registered; a purchaseProperty on a *)
(* property whose status is not onSale fails and changes nothing, with the *)
(* "not onSale" error when the buyer's record exists and with the missing  *)
(* user/property error when it does not; and only a successful             *)
(* updateProperty gives a property the status onSale.                      *)
C3_PurchaseRegistersToBuyer ==
    [][/\ PurchaseSucceeds =>
            LET pid == makeKey(<<call'.propertyId>>)
            IN /\ props'[pid].owner = makeKey(<<call'.name, call'.aadhar>>)
               /\ props'[pid].status = REGISTERED
       /\ \A pid \in DOMAIN props :
            (call'.op = "purchaseProperty" /\ makeKey(<<call'.propertyId>>) = pid
             /\ props[pid].status # ON_SALE)
            => /\ outcome'.err =
                    IF makeKey(<<call'.name, call'.aadhar>>) \in DOMAIN users
                    THEN ErrNotOnSale ELSE ErrNoUserOrProperty
               /\ LedgerUnchanged
       /\ \A pid \in DOMAIN props' :
            (props'[pid].status = ON_SALE
             /\ (pid \notin DOMAIN props \/ props[pid].status # ON_SALE))
            => call'.op = "updateProperty" /\ outcome'.err = NoError]_vars

\* reached: a purchase has just succeeded and left the property registered
\* to the buyer
C3_Witness ==
    /\ call.op = "purchaseProperty" /\ outcome.err = NoError
    /\ props[call.propertyId].owner = callerKey
    /\ props[call.propertyId].status = REGISTERED

(* C4: in every reachable state every stored user balance is a             *)
(* non-negative integer.                                                    *)
C4_BalancesNonNegative ==
    \A k \in DOMAIN users :
        HasBalance(users[k]) =>
            users[k].upgradCoins.t = "number" /\ users[k].upgradCoins.n >= 0

(* C5: once a user has been approved, no invocation of requestNewUser,     *)
(* approveNewUserRequest, propertyRegistrationRequest,                      *)
(* approvePropertyRegistrationRequest or updateProperty changes that       *)
(* user's stored balance.                                                   *)
C5_BalanceFrame ==
    [][\A k \in approvedUsers :
          call'.op \notin {"rechargeAccount", "purchaseProperty"}
          => users'[k].upgradCoins = users[k].upgradCoins]_vars

(* C6: in every reachable state a user record has a balance field only if  *)
(* approveNewUserRequest has succeeded for that user key.                   *)
C6_BalanceOnlyIfApproved ==
    \A k \in DOMAIN users : HasBalance(users[k]) => k \in approvedUsers

(* C7: in every reachable state the owner of every stored property is the  *)
(* key of an existing user record that has a balance.                       *)
C7_OwnerIsApprovedUser ==
    \A pid \in DOMAIN props :
        /\ props[pid].owner \in DOMAIN users
        /\ HasBalance(users[props[pid].owner])

(* C8: a property has status registered or onSale only if                  *)
(* approvePropertyRegistrationRequest has succeeded for its propertyId.     *)
C8_StatusOnlyIfApproved ==
    \A pid \in DOMAIN props :
        props[pid].status \in {REGISTERED, ON_SALE} => pid \in approvedProps

(* C9: purchaseProperty invoked by a principal whose MSP is not usersMSP   *)
(* is rejected with an authorization error before any read or write and    *)
(* changes no user or property record.                                      *)
C9_PurchaseRoleGate ==
    [][(call'.op = "purchaseProperty" /\ call'.msp # "usersMSP")
          => /\ outcome'.err \in AuthErrors
             /\ outcome'.reads = <<>> /\ outcome'.puts = <<>>
             /\ LedgerUnchanged]_vars

(* C10: requestNewUser, rechargeAccount and propertyRegistrationRequest    *)
(* invoked under an MSP other than usersMSP, and approveNewUserRequest and *)
(* approvePropertyRegistrationRequest invoked under an MSP other than      *)
(* registrarMSP, fail with their authorization error before any ledger     *)
(* read or write and leave every record unchanged.                          *)
C10_GateError(op) ==
    CASE op = "requestNewUser" -> ErrRequestUserAuth
      [] op = "rechargeAccount" -> ErrRechargeAuth
      [] op = "propertyRegistrationRequest" -> ErrPropertyRequestAuth
      [] op = "approveNewUserRequest" -> ErrApproveUserAuth
      [] op = "approvePropertyRegistrationRequest" -> ErrApprovePropertyAuth

C10_WrongRole(c) ==
    \/ /\ c.op \in {"requestNewUser", "rechargeAccount", "propertyRegistrationRequest"}
       /\ c.msp # "usersMSP"
    \/ /\ c.op \in {"approveNewUserRequest", "approvePropertyRegistrationRequest"}
       /\ c.msp # "registrarMSP"

C10_RoleGates ==
    [][C10_WrongRole(call') =>
          /\ outcome'.err = C10_GateError(call'.op)
          /\ outcome'.reads = <<>> /\ outcome'.puts = <<>>
          /\ LedgerUnchanged]_vars

\* reached: a registrar-MSP caller was just refused a recharge of an
\* existing user's account, which a user-MSP caller would have been granted
C10_Witness ==
    /\ call.op = "rechargeAccount" /\ call.msp = "registrarMSP"
    /\ outcome.err = ErrRechargeAuth
    /\ callerKey \in DOMAIN users /\ HasBalance(users[callerKey])

(* C11: updateProperty called with a name:aadhar key that differs from the *)
(* property's stored owner is rejected with the not-owner error and changes *)
(* no field of the property (nor any other record), whatever status value  *)
(* is requested.                                                            *)
C11_NonOwnerUpdateRejected ==
    [][\A pid \in DOMAIN props :
          (/\ call'.op = "updateProperty"
           /\ makeKey(<<call'.propertyId>>) = pid
           /\ makeKey(<<call'.name, call'.aadhar>>) # props[pid].owner)
          => /\ outcome'.err = ErrNotOwner
             /\ outcome'.puts = <<>>
             /\ LedgerUnchanged]_vars

\* reached: the property is onSale and a caller who is not its owner was
\* just refused when asking for status registered
C11_Witness ==
    /\ call.op = "updateProperty" /\ call.arg = REGISTERED
    /\ outcome.err = ErrNotOwner
    /\ call.propertyId \in DOMAIN props
    /\ props[call.propertyId].status = ON_SALE
    /\ props[call.propertyId].owner # callerKey

(* C12: rechargeAccount for an approved user with a transaction code that  *)
(* maps to N in the table increases that user's balance by exactly N and   *)
(* changes no other record; with a code that is not in the table it fails  *)
(* with an error and no balance is changed.                                 *)
C12_RechargeByTable ==
    [][\A k \in approvedUsers :
          (/\ call'.op = "rechargeAccount" /\ call'.msp = "usersMSP"
           /\ makeKey(<<call'.name, call'.aadhar>>) = k
           /\ users[k].upgradCoins.t = "number")
          => IF call'.arg \in DOMAIN VALID_TRANSACTIONS
             THEN /\ outcome'.err = NoError
                  /\ users'[k].upgradCoins =
                        Num(users[k].upgradCoins.n + VALID_TRANSACTIONS[call'.arg])
                  /\ \A j \in DOMAIN users : j # k => users'[j] = users[j]
                  /\ props' = props
             ELSE /\ outcome'.err # NoError
                  /\ LedgerUnchanged]_vars

(* C13: for every pending user request, approveNewUserRequest by a         *)
(* registrar stores a user with balance 0 under the same key name:aadhar   *)
(* that requestNewUser used, with the fields of the request, so that a      *)
(* following viewUser(name, aadhar) returns that approved record; with no  *)
(* record at the key it fails with an error and writes nothing.            *)
C13_ApproveStoresZeroBalance ==
    [][(call'.op = "approveNewUserRequest" /\ call'.msp = "registrarMSP") =>
          LET k == makeKey(<<call'.name, call'.aadhar>>)
              view == viewUser(users', props', "usersMSP", call'.name, call'.aadhar)
          IN IF k \in DOMAIN users
             THEN ~HasBalance(users[k]) =>
                    /\ outcome'.err = NoError
                    /\ k \in DOMAIN users'
                    /\ users'[k].upgradCoins = Num(0)
                    /\ \A f \in {"name", "email", "phone", "aadhar", "createdAt"} :
                          users'[k][f] = users[k][f]
                    /\ \A j \in DOMAIN users' : j # k => j \in DOMAIN users
                                                        /\ users'[j] = users[j]
                    /\ view.err = NoError
                    /\ view.ret = users'[k]
             ELSE /\ outcome'.err = ErrNoUserRequest
                  /\ outcome'.puts = <<>>
                  /\ LedgerUnchanged]_vars

\* reached: a request that had no balance was just approved (the record
\* written has balance 0 and is the one stored at the caller's key)
C13_Witness ==
    /\ call.op = "approveNewUserRequest" /\ outcome.err = NoError
    /\ callerKey \in DOMAIN users
    /\ outcome.puts[1].key = callerKey
    /\ users[callerKey] = outcome.puts[1].value
    /\ users[callerKey].upgradCoins = Num(0)
    /\ viewUser(users, props, "usersMSP", call.name, call.aadhar).ret = users[callerKey]

(* C17: viewUser and viewProperty, in the user contract and in the         *)
(* registrar contract alike, return the stored record when one exists at   *)
(* the key and fail with a not-found error when none exists.               *)
C17_ViewsFailWhenAbsent ==
    [][/\ call'.op \in {"viewUser", "registrar:viewUser"} =>
            LET k == makeKey(<<call'.name, call'.aadhar>>)
            IN IF k \in DOMAIN users
               THEN outcome'.err = NoError /\ outcome'.ret = users[k]
               ELSE outcome'.err = ErrNoUser
       /\ call'.op \in {"viewProperty", "registrar:viewProperty"} =>
            LET pid == makeKey(<<call'.propertyId>>)
            IN IF pid \in DOMAIN props
               THEN /\ outcome'.err = NoError
                    /\ \A f \in {"propertyId", "owner", "price", "status"} :
                          outcome'.ret[f] = props[pid][f]
               ELSE outcome'.err = ErrNoRegisteredProperty]_vars

(* C14: approvePropertyRegistrationRequest takes effect only on a pending  *)
(* property: the status of a property that is onSale changes to registered *)
(* only through an updateProperty or a purchaseProperty, never through an  *)
(* approval.                                                                *)
C14_OnSaleLeftOnlyByOwnerOrPurchase ==
    [][\A pid \in DOMAIN props :
          (props[pid].status = ON_SALE /\ props'[pid].status = REGISTERED)
          => call'.op \in {"updateProperty", "purchaseProperty"}]_vars

(* C15: requestNewUser for a key that already holds a record is rejected   *)
(* and leaves every record unchanged, and the error for an approved user   *)
(* (the "already exists" one) differs from the error for a still pending   *)
(* request.                                                                 *)
C15_DuplicateUserRejected ==
    [][\A k \in DOMAIN users :
          (call'.op = "requestNewUser" /\ makeKey(<<call'.name, call'.aadhar>>) = k)
          => /\ outcome'.err # NoError
             /\ outcome'.puts = <<>>
             /\ LedgerUnchanged
             /\ call'.msp = "usersMSP" =>
                   outcome'.err = IF k \in approvedUsers
                                  THEN ErrUserExists ELSE ErrUserRequestExists
             /\ ErrUserExists # ErrUserRequestExists]_vars

(* C16: propertyRegistrationRequest for a propertyId that already holds a  *)
(* record (pending, registered or onSale) fails with an error and leaves   *)
(* the stored owner, price and status unchanged, and the error for a       *)
(* registered property differs from the one for a pending request.         *)
C16_DuplicatePropertyRejected ==
    [][\A pid \in DOMAIN props :
          (call'.op = "propertyRegistrationRequest"
           /\ makeKey(<<call'.propertyId>>) = pid)
          => /\ outcome'.err # NoError
             /\ outcome'.puts = <<>>
             /\ LedgerUnchanged
             /\ (call'.msp = "usersMSP" /\ props[pid].status = REGISTERED)
                   => outcome'.err = ErrPropertyExists
             /\ (call'.msp = "usersMSP" /\ props[pid].status = NoField)
                   => outcome'.err = ErrPropertyRequestExists
             /\ ErrPropertyExists # ErrPropertyRequestExists]_vars

\* reached: a user-role request for a registered property was just refused
\* with the "already exists" error, the property keeping its owner
C16_Witness ==
    /\ call.op = "propertyRegistrationRequest" /\ call.msp = "usersMSP"
    /\ outcome.err = ErrPropertyExists
    /\ call.propertyId \in DOMAIN props
    /\ props[call.propertyId].status = REGISTERED
    /\ props[call.propertyId].owner # callerKey
    /\ callerKey \in DOMAIN users

(* C18: an invocation that ends in an error has issued no putState and     *)
(* leaves every record unchanged, and a purchase that succeeds has issued  *)
(* all three of its writes: the property, the buyer and the old owner.     *)
C18_ErrorMeansNoWrite ==
    [][/\ outcome'.err # NoError => (outcome'.puts = <<>> /\ LedgerUnchanged)
       /\ (call'.op = "purchaseProperty" /\ outcome'.err = NoError) =>
             LET pid == makeKey(<<call'.propertyId>>)
                 buyer == makeKey(<<call'.name, call'.aadhar>>)
             IN /\ Len(outcome'.puts) = 3
                /\ outcome'.puts[1] = Put(PROPERTY_NS, pid, props'[pid])
                /\ outcome'.puts[2].ns = USER_NS /\ outcome'.puts[2].key = buyer
                /\ outcome'.puts[3] = Put(USER_NS, props[pid].owner,
                                          users'[props[pid].owner])]_vars

\* reached: the owner of a property just passed a status that is neither
\* registered nor onSale, and the update was refused after the ownership test
C18_Witness ==
    /\ call.op = "updateProperty" /\ call.arg = "sold"
    /\ outcome.err = ErrBadStatus
    /\ call.propertyId \in DOMAIN props
    /\ props[call.propertyId].owner = callerKey
    /\ \E pid \in DOMAIN props : pid \in approvedProps

(* C19: when the ledger read of the target record fails, requestNewUser    *)
(* and propertyRegistrationRequest end in an error and the record stored   *)
(* at the key whose read failed is left as it was: no fresh pending record *)
(* is written over it.                                                      *)
C19_FailedReadNeverOverwrites ==
    [][call'.arg = "getStateFails" =>
          /\ \A k \in DOMAIN users :
                (call'.op = "requestNewUser" /\ call'.msp = "usersMSP"
                 /\ makeKey(<<call'.name, call'.aadhar>>) = k)
                => (outcome'.err # NoError /\ users'[k] = users[k])
          /\ \A pid \in DOMAIN props :
                (call'.op = "propertyRegistrationRequest" /\ call'.msp = "usersMSP"
                 /\ makeKey(<<call'.propertyId>>) = pid)
                => (outcome'.err # NoError /\ props'[pid] = props[pid])]_vars

\* this step commits a purchaseProperty transaction
PurchaseCommits ==
    /\ call'.op = "purchaseProperty" /\ call'.arg = "commit"
    /\ outcome'.err = NoError

\* no purchase of the property still in flight can commit
RivalsRejected(pid) ==
    \A t \in endorsed' :
        (t.c.op = "purchaseProperty" /\ makeKey(<<t.c.propertyId>>) = pid)
        => ~Valid(versions', t)

(* C20: when one of several concurrent purchaseProperty invocations for    *)
(* the same onSale property commits, its buyer becomes the owner and is    *)
(* debited the price, the seller is credited the price, every other        *)
(* balance is unchanged, and no other purchase of that property simulated  *)
(* before the commit can commit any more.                                   *)
C20_ExactlyOnePurchaseCommits ==
    [][PurchaseCommits =>
          LET pid == makeKey(<<call'.propertyId>>)
              buyer == makeKey(<<call'.name, call'.aadhar>>)
              seller == props[pid].owner
              price == ToNumber(props[pid].price).n
          IN /\ props'[pid].owner = buyer
             /\ props'[pid].status = REGISTERED
             /\ Coins(users'[buyer]) = Coins(users[buyer]) - price
             /\ buyer # seller => Coins(users'[seller]) = Coins(users[seller]) + price
             /\ \A k \in DOMAIN users \ {buyer, seller} : users'[k] = users[k]
             /\ RivalsRejected(pid)]_vars

\* the same for a buyer who is not the stored owner of the property
MVCC_PurchaseByOtherCommitsOnce ==
    [][(PurchaseCommits
        /\ makeKey(<<call'.name, call'.aadhar>>)
              # props[makeKey(<<call'.propertyId>>)].owner)
       =>
          LET pid == makeKey(<<call'.propertyId>>)
              buyer == makeKey(<<call'.name, call'.aadhar>>)
              seller == props[pid].owner
              price == ToNumber(props[pid].price).n
          IN /\ props'[pid].owner = buyer
             /\ props'[pid].status = REGISTERED
             /\ Coins(users'[buyer]) = Coins(users[buyer]) - price
             /\ Coins(users'[seller]) = Coins(users[seller]) + price
             /\ \A k \in DOMAIN users \ {buyer, seller} : users'[k] = users[k]
             /\ RivalsRejected(pid)]_vars

\* reached: a purchase simulated concurrently with another one was rejected
\* whole at validation, after a different buyer's purchase committed
MVCC_RivalRejected ==
    /\ call.op = "purchaseProperty" /\ call.arg = "commit"
    /\ outcome.err = ErrMVCCReadConflict
    /\ call.propertyId \in DOMAIN props
    /\ props[call.propertyId].owner \notin {"a:1", callerKey}

(* C21: two executions of the same operation with the same arguments, the  *)
(* same caller and the same ledger state, as on two endorsing peers, end   *)
(* the same way and issue the same writes with the same values.            *)
C21_PeersAgree ==
    \A t1 \in endorsed, t2 \in endorsed :
        (t1.c = t2.c /\ t1.readVersions = t2.readVersions)
        => (t1.r.err = t2.r.err /\ t1.r.puts = t2.r.puts)

\* the same for the operations other than requestNewUser
Peers_AgreeButRequestNewUser ==
    \A t1 \in endorsed, t2 \in endorsed :
        (t1.c = t2.c /\ t1.c.op # "requestNewUser") => t1.r = t2.r

====
